---- MODULE Spec2Model ----
\* Model of scripts/env_doctor.py: the environment probes, the result list
\* built by main() and the report / exit-code reduction of print_results().
EXTENDS Integers, Naturals, Sequences, FiniteSets, Bags, TLC

VARIABLES
    results,    \* the list handed to print_results
    out,        \* the lines print_results writes to stdout
    code,       \* the value print_results returns
    results2,   \* a second list, for comparing two calls of print_results
    out2,
    code2,
    inp,        \* the probe's inputs: environment, flags, arguments
    res,        \* the CheckResult a probe returned
    pc          \* position of the driver: "init", "printed", "done"

vars == <<results, out, code, results2, out2, code2, inp, res, pc>>

None == "None"

\* ---------------------------------------------------------------- helpers

\* str(n) for a natural number
RECURSIVE NatToStr(_)
NatToStr(n) ==
    LET d == n % 10
        c == CASE d = 0 -> "0" [] d = 1 -> "1" [] d = 2 -> "2" [] d = 3 -> "3"
               [] d = 4 -> "4" [] d = 5 -> "5" [] d = 6 -> "6" [] d = 7 -> "7"
               [] d = 8 -> "8" [] OTHER -> "9"
    IN IF n < 10 THEN c ELSE NatToStr(n \div 10) \o c

\* t occurs in s (Python's `t in s` on strings)
Contains(s, t) == \E i \in 0..(Len(s) - Len(t)) : SubSeq(s, i + 1, i + Len(t)) = t

\* s.split(sep) for a one-character separator
RECURSIVE SplitAcc(_, _, _, _)
SplitAcc(s, sep, cur, acc) ==
    IF s = "" THEN Append(acc, cur)
    ELSE IF SubSeq(s, 1, 1) = sep THEN SplitAcc(SubSeq(s, 2, Len(s)), sep, "", Append(acc, cur))
    ELSE SplitAcc(SubSeq(s, 2, Len(s)), sep, cur \o SubSeq(s, 1, 1), acc)
Split(s, sep) == SplitAcc(s, sep, "", <<>>)

\* ---------------------------------------------------------------- CheckResult

CheckResult(name, ok, details, fix, required) ==
    [name |-> name, ok |-> ok, details |-> details, fix |-> fix, required |-> required]

\* ---------------------------------------------------------------- print_results

GlyphOk == "U+2705"
GlyphFail == "U+274C"
GlyphWarn == "U+26A0U+FE0F"

IsFailedRequiredMut(r) == ~r.ok
IsFailedRequired(r) == r.required /\ ~r.ok
IsFailedOptional(r) == ~r.required /\ ~r.ok

\* The lines printed for one result (the loop body of print_results)
EntryLinesMut(r) ==
    LET status == IF r.ok THEN GlyphOk ELSE GlyphFail
        req == IF r.required THEN "REQUIRED" ELSE "OPTIONAL"
    IN  << status \o " [" \o req \o "] " \o r.name >>
        \o << "    - " \o r.details >>
        \o (IF ~r.ok THEN << "    - Fix: " \o r.fix >> ELSE << >>)
        \o << "" >>
EntryLines(r) ==
    LET status == IF r.ok THEN GlyphOk ELSE GlyphFail
        req == IF r.required THEN "REQUIRED" ELSE "OPTIONAL"
    IN  << status \o " [" \o req \o "] " \o r.name >>
        \o (IF r.details /= "" THEN << "    - " \o r.details >> ELSE << >>)
        \o (IF ~r.ok THEN << "    - Fix: " \o r.fix >> ELSE << >>)
        \o << "" >>

RECURSIVE ReportLines(_)
ReportLines(rs) == IF rs = <<>> THEN <<>> ELSE EntryLines(Head(rs)) \o ReportLines(Tail(rs))

\* print_results(results): <<printed lines, return value>>
PrintResultsMut(rs) ==
    << ReportLines(rs), IF rs /= <<>> /\ IsFailedRequired(rs[Len(rs)]) THEN 1 ELSE 0 >>
PrintResults(rs) ==
    LET failedRequired == SelectSeq(rs, IsFailedRequired)
        failedOptional == SelectSeq(rs, IsFailedOptional)
        body == ReportLines(rs)
    IN  IF failedRequired /= <<>>
        THEN << body \o << GlyphFail \o " Environment check FAILED ("
                            \o NatToStr(Len(failedRequired)) \o " required issue(s))" >>, 1 >>
        ELSE IF failedOptional /= <<>>
        THEN << body \o << GlyphWarn \o " Environment check PASSED with warnings ("
                            \o NatToStr(Len(failedOptional)) \o ")" >>, 0 >>
        ELSE << body \o << GlyphOk \o " Environment check PASSED" >>, 0 >>

\* ---------------------------------------------------------------- SpecPR: print_results on bounded lists

MaxResults == 3
PRNames == {"a", "b"}
PRDetails == {"", "d"}
PRFix == {"f"}
PRResults == { CheckResult(n, o, d, f, q) :
                 n \in PRNames, o \in BOOLEAN, d \in PRDetails, f \in PRFix, q \in BOOLEAN }
SeqsUpTo(S, n) == UNION { [1..k -> S] : k \in 0..n }

InitPR ==
    /\ results \in SeqsUpTo(PRResults, MaxResults)
    /\ out = <<>> /\ code = -1
    /\ results2 = <<>> /\ out2 = <<>> /\ code2 = -1
    /\ inp = None /\ res = None
    /\ pc = "init"

\* print_results(results)
PrintAction ==
    /\ pc = "init"
    /\ out' = PrintResults(results)[1]
    /\ code' = PrintResults(results)[2]
    /\ pc' = "printed"
    /\ UNCHANGED <<results, results2, out2, code2, inp, res>>

NextPR == PrintAction

SpecPR == InitPR /\ [][NextPR]_vars

HasFailedRequired(rs) == \E i \in 1..Len(rs) : rs[i].required /\ ~rs[i].ok
HasFailedOptional(rs) == \E i \in 1..Len(rs) : ~rs[i].required /\ ~rs[i].ok
LastLine(ls) == ls[Len(ls)]

\* C1: print_results returns 1 exactly when some result is required and not ok;
\* otherwise it returns 0, and its last line is the "PASSED with warnings" summary when
\* some optional result failed, or the plain "Environment check PASSED" when none failed.
C1_ExitCodeContract ==
    pc = "printed" =>
        /\ code \in {0, 1}
        /\ (code = 1 <=> HasFailedRequired(results))
        /\ (~HasFailedRequired(results) /\ HasFailedOptional(results)
               => Contains(LastLine(out), "PASSED with warnings"))
        /\ (~HasFailedRequired(results) /\ ~HasFailedOptional(results)
               => LastLine(out) = GlyphOk \o " Environment check PASSED")

C1_Witness ==
    /\ pc = "printed" /\ Len(results) = MaxResults
    /\ HasFailedRequired(results) /\ HasFailedOptional(results)
    /\ \E i \in 1..Len(results) : results[i].ok

\* ---------------------------------------------------------------- SpecPerm: two calls of print_results

MaxPermLen == 2
PermResults == { CheckResult("a", o, d, "f", q) : o \in BOOLEAN, d \in PRDetails, q \in BOOLEAN }
RelNames == {"a", "b"}
RelDetails == {"", "x"}
Perms(n) == { f \in [1..n -> 1..n] : \A i, j \in 1..n : i /= j => f[i] /= f[j] }

InitPerm ==
    /\ results \in SeqsUpTo(PermResults, MaxPermLen)
    /\ out = <<>> /\ code = -1
    /\ results2 = <<>> /\ out2 = <<>> /\ code2 = -1
    /\ inp = None /\ res = None
    /\ pc = "init"

\* print_results on the same (ok, required) pairs, reordered and with other names,
\* details and fix texts
PrintPermuted ==
    /\ pc = "printed"
    /\ \E f \in Perms(Len(results)),
         nm \in [1..Len(results) -> RelNames],
         dt \in [1..Len(results) -> RelDetails] :
         LET rs2 == [i \in 1..Len(results) |->
                       CheckResult(nm[i], results[f[i]].ok, dt[i], "g", results[f[i]].required)]
         IN  /\ results2' = rs2
             /\ out2' = PrintResults(rs2)[1]
             /\ code2' = PrintResults(rs2)[2]
    /\ pc' = "done"
    /\ UNCHANGED <<results, out, code, inp, res>>

NextPerm == PrintAction \/ PrintPermuted

SpecPerm == InitPerm /\ [][NextPerm]_vars

PairBag(rs) == LET pairs == [i \in 1..Len(rs) |-> <<rs[i].ok, rs[i].required>>]
               IN  [p \in {pairs[i] : i \in 1..Len(rs)} |-> Cardinality({i \in 1..Len(rs) : pairs[i] = p})]

\* C2: the exit code of print_results depends only on the multiset of (ok, required)
\* pairs: a reordered, renamed list with the same pairs gives the same exit code.
C2_ExitCodeOnlyOnPairs ==
    pc = "done" /\ PairBag(results) = PairBag(results2) => code = code2

C2_Witness ==
    /\ pc = "done" /\ Len(results) = MaxPermLen
    /\ results[1].ok /\ ~results[2].ok /\ results[2].required
    /\ ~results2[1].ok /\ results2[2].ok
    /\ results2[1].name /= results[2].name

\* ---------------------------------------------------------------- probes: common frame

\* The print_results part of the state, untouched by a probe
ProbeInitRest ==
    /\ results = <<>> /\ out = <<>> /\ code = -1
    /\ results2 = <<>> /\ out2 = <<>> /\ code2 = -1
    /\ res = None /\ pc = "init"

\* ---------------------------------------------------------------- SpecPy: check_python_version

MaxMajor == 4
MaxMinor == 13
MaxMicro == 2
Executables == {"/usr/bin/python3", "/home/u/proj/.venv/bin/python"}
\* what sys.version carries after major.minor.micro: nothing (release), a pre-release
\* tag, or "+" (development build)
PyReleaseSuffixes == {"", "rc1", "+"}

\* Python's tuple comparison (a1, a2) >= (b1, b2)
TupleGEMut(a, b) == a[2] >= b[2]
TupleGE(a, b) == a[1] > b[1] \/ (a[1] = b[1] /\ a[2] >= b[2])

CheckPythonVersion(major, minor, micro, suffix, exe) ==
    CheckResult("Python version >= 3.10",
                TupleGE(<<major, minor>>, <<3, 10>>),
                NatToStr(major) \o "." \o NatToStr(minor) \o "." \o NatToStr(micro) \o suffix
                    \o " (" \o exe \o ")",
                "Install Python 3.10+ and activate the correct uv venv.",
                TRUE)

InitPy ==
    /\ inp \in [major : 2..MaxMajor, minor : 0..MaxMinor, micro : 0..MaxMicro,
                 suffix : PyReleaseSuffixes, exe : Executables]
    /\ ProbeInitRest

RunCheckPythonVersion ==
    /\ pc = "init"
    /\ res' = CheckPythonVersion(inp.major, inp.minor, inp.micro, inp.suffix, inp.exe)
    /\ pc' = "done"
    /\ UNCHANGED <<results, out, code, results2, out2, code2, inp>>

NextPy == RunCheckPythonVersion

SpecPy == InitPy /\ [][NextPy]_vars

\* C9: check_python_version is ok exactly when (major, minor) >= (3, 10) in lexicographic
\* order (3.9.x false, 3.10.0 true, 3.13.1 true, 4.0 true, 2.11 false) and always required.
C9_PythonVersion ==
    pc = "done" =>
        /\ res.required = TRUE
        /\ (res.ok <=> (inp.major > 3 \/ (inp.major = 3 /\ inp.minor >= 10)))
        /\ (inp.major = 3 /\ inp.minor = 9 => ~res.ok)
        /\ (inp.major = 3 /\ inp.minor \in {10, 13} => res.ok)

C9_Witness ==
    /\ pc = "done" /\ inp.major = 4 /\ inp.minor = 0 /\ res.ok

\* ---------------------------------------------------------------- SpecBin: which / check_bin

MaxPathDirs == 2
BinDirs == {"/usr/bin", "/home/u/.nvm/bin"}
BinNames == {"node", "uv"}
BinLabels == [n \in BinNames |-> IF n = "node" THEN "Node.js" ELSE "uv"]
\* what sits at a candidate location: nothing, an executable file, a file without x bit
FileKinds == {"absent", "exec", "noexec"}

\* os.path.join(dir, name) for a relative name
PathJoin(d, n) == IF d = "" THEN n
                  ELSE IF SubSeq(d, Len(d), Len(d)) = "/" THEN d \o n ELSE d \o "/" \o n

\* ":".join(dirs)
RECURSIVE JoinColon(_)
JoinColon(ds) == IF ds = <<>> THEN ""
                 ELSE IF Len(ds) = 1 THEN Head(ds)
                 ELSE Head(ds) \o ":" \o JoinColon(Tail(ds))

\* shutil.which(name): the first directory of PATH holding an executable `name`, or None
RECURSIVE WhichIn(_, _, _)
WhichIn(dirs, n, fs) ==
    IF dirs = <<>> THEN None
    ELSE LET cand == PathJoin(Head(dirs), n)
         IN  IF cand \in DOMAIN fs /\ fs[cand] = "exec" THEN cand
             ELSE WhichIn(Tail(dirs), n, fs)
Which(n, pathEnv, fs) == IF pathEnv = "" THEN None ELSE WhichIn(Split(pathEnv, ":"), n, fs)

CheckBinMut(n, required, label, p) ==
    CheckResult(label \o " is installed", p = None, IF p = None THEN "not found" ELSE p,
                "Install '" \o label \o "' in WSL/Linux/macOS and ensure it is on PATH.", required)
CheckBin(n, required, label, p) ==
    CheckResult(label \o " is installed", p /= None, IF p = None THEN "not found" ELSE p,
                "Install '" \o label \o "' in WSL/Linux/macOS and ensure it is on PATH.", required)

InitBin ==
    /\ inp \in [name : BinNames, required : BOOLEAN,
                 path : { JoinColon(ds) : ds \in SeqsUpTo(BinDirs, MaxPathDirs) },
                 fs : [{ PathJoin(d, n) : d \in BinDirs, n \in BinNames } -> FileKinds]]
    /\ ProbeInitRest

\* check_bin(name, required, label) with which() reading PATH and the filesystem
RunCheckBin ==
    /\ pc = "init"
    /\ res' = CheckBin(inp.name, inp.required, BinLabels[inp.name],
                       Which(inp.name, inp.path, inp.fs))
    /\ pc' = "done"
    /\ UNCHANGED <<results, out, code, results2, out2, code2, inp>>

NextBin == RunCheckBin

SpecBin == InitBin /\ [][NextBin]_vars

\* An executable `name` lies in a directory listed in PATH
Resolvable(i) == LET entries == IF i.path = "" THEN <<>> ELSE Split(i.path, ":")
                IN  \E k \in 1..Len(entries) :
                        /\ PathJoin(entries[k], i.name) \in DOMAIN i.fs
                        /\ i.fs[PathJoin(entries[k], i.name)] = "exec"

\* C6: check_bin gives ok=false and details "not found" when the name does not resolve on
\* PATH, ok=true and details the resolved path when it does; required is the flag passed in.
C6_CheckBin ==
    pc = "done" =>
        /\ res.required = inp.required
        /\ (~Resolvable(inp) => ~res.ok /\ res.details = "not found")
        /\ (Resolvable(inp) =>
               /\ res.ok
               /\ res.details = Which(inp.name, inp.path, inp.fs)
               /\ inp.fs[res.details] = "exec")

C6_Witness ==
    /\ pc = "done" /\ res.ok /\ ~inp.required
    /\ inp.fs[PathJoin("/usr/bin", inp.name)] = "exec"
    /\ res.details = PathJoin("/home/u/.nvm/bin", inp.name)

\* ---------------------------------------------------------------- SpecProj: project_is_on_linux_fs / check_project_path

MaxComps == 3
PathComps == {"mnt", "c", "Z", "cc", "1", "..", ".", "", "x"}
PathPrefixes == {"", "/", "//"}
Cwds == {"/", "/mnt", "/home/u"}
AsciiLetters == {"a", "b", "c", "x", "z", "A", "C", "Z"} \cup
                {"d", "e", "f", "g", "h", "i", "j", "k", "l", "m", "n", "o", "p", "q", "r", "s",
                 "t", "u", "v", "w", "y", "B", "D", "E", "F", "G", "H", "I", "J", "K", "L", "M",
                 "N", "O", "P", "Q", "R", "S", "T", "U", "V", "W", "X", "Y"}

RECURSIVE JoinSlash(_)
JoinSlash(cs) == IF cs = <<>> THEN ""
                 ELSE IF Len(cs) = 1 THEN Head(cs)
                 ELSE Head(cs) \o "/" \o JoinSlash(Tail(cs))

StartsWith(s, t) == Len(s) >= Len(t) /\ SubSeq(s, 1, Len(t)) = t
IsAbs(p) == StartsWith(p, "/")

\* posixpath.join(a, b)
Join(a, b) == IF IsAbs(b) THEN b
              ELSE IF a = "" \/ SubSeq(a, Len(a), Len(a)) = "/" THEN a \o b
              ELSE a \o "/" \o b

\* the component loop of posixpath.normpath
RECURSIVE NormComps(_, _, _)
NormComps(comps, initialSlashes, acc) ==
    IF comps = <<>> THEN acc
    ELSE LET c == Head(comps)
         IN  IF c \in {"", "."} THEN NormComps(Tail(comps), initialSlashes, acc)
             ELSE IF c /= ".." \/ (initialSlashes = 0 /\ acc = <<>>)
                     \/ (acc /= <<>> /\ acc[Len(acc)] = "..")
             THEN NormComps(Tail(comps), initialSlashes, Append(acc, c))
             ELSE IF acc /= <<>>
             THEN NormComps(Tail(comps), initialSlashes, SubSeq(acc, 1, Len(acc) - 1))
             ELSE NormComps(Tail(comps), initialSlashes, acc)

Slashes(n) == CASE n = 0 -> "" [] n = 1 -> "/" [] OTHER -> "//"

\* posixpath.normpath(path)
NormPath(path) ==
    IF path = "" THEN "."
    ELSE LET initialSlashes ==
                 IF ~StartsWith(path, "/") THEN 0
                 ELSE IF StartsWith(path, "//") /\ ~StartsWith(path, "///") THEN 2 ELSE 1
             p2 == Slashes(initialSlashes) \o JoinSlash(NormComps(Split(path, "/"), initialSlashes, <<>>))
         IN  IF p2 = "" THEN "." ELSE p2

\* os.path.abspath(path), the working directory being cwd
AbsPath(path, cwd) == NormPath(IF IsAbs(path) THEN path ELSE Join(cwd, path))

\* re.match(r"^/mnt/[a-zA-Z]/", s)
MatchesMntDrive(s) ==
    /\ Len(s) >= 7
    /\ SubSeq(s, 1, 5) = "/mnt/"
    /\ SubSeq(s, 6, 6) \in AsciiLetters
    /\ SubSeq(s, 7, 7) = "/"

ProjectIsOnLinuxFs(projectPath, cwd) == ~MatchesMntDrive(AbsPath(projectPath, cwd))

CheckProjectPath(projectPath, cwd) ==
    CheckResult("Project directory is on Linux filesystem (not /mnt/c)",
                ProjectIsOnLinuxFs(projectPath, cwd),
                AbsPath(projectPath, cwd),
                "Move project into Linux FS (e.g. /home/<user>/project).",
                TRUE)

InitProj ==
    /\ inp \in [project : { pre \o JoinSlash(cs) \o post :
                              pre \in PathPrefixes, cs \in SeqsUpTo(PathComps, MaxComps),
                              post \in {"", "/"} },
                 cwd : Cwds]
    /\ ProbeInitRest

\* check_project_path(args.project)
RunCheckProjectPath ==
    /\ pc = "init"
    /\ res' = CheckProjectPath(inp.project, inp.cwd)
    /\ pc' = "done"
    /\ UNCHANGED <<results, out, code, results2, out2, code2, inp>>

NextProj == RunCheckProjectPath

SpecProj == InitProj /\ [][NextProj]_vars

\* The claim's reading of "the path made absolute": resolved as os.path.abspath does, but
\* keeping the trailing "/" the argument ends with, so that the drive root "/mnt/c/" is a
\* path under the drive mount (unlike os.path.abspath, which gives "/mnt/c")
ResolvedKeepSlash(i) ==
    LET a == AbsPath(i.project, i.cwd)
    IN  IF Len(i.project) > 0 /\ SubSeq(i.project, Len(i.project), Len(i.project)) = "/" /\ a /= "/"
        THEN a \o "/" ELSE a

\* C3: once the path is resolved to an absolute path, ok is false exactly when it matches
\* ^/mnt/<letter>/ (either case); every other path is ok; the check is always required.
C3_MntPattern ==
    pc = "done" => (res.required /\ (~res.ok <=> MatchesMntDrive(ResolvedKeepSlash(inp))))

\* ---------------------------------------------------------------- SpecHyg: path_contains_windows_bins / check_windows_path_hygiene

MaxEntries == 2
PathEntries == {"/usr/bin",
                "/mnt/c/Program Files/nodejs",
                "/mnt/c/program files (x86)/NodeJS",
                "/mnt/c/Program Files/node",
                "/mnt/d/Program Files/nodejs",
                "/mnt/c/Users/bob/AppData/Roaming/npm",
                "/mnt/c/Users/AppData/Roaming/npm",
                "/mnt/c/users/Bob/appdata/local/microsoft/windowsapps",
                "/mnt/c/Users/bob/AppData/Local/Programs/Python/Python311/Scripts"}

UpperToLower ==
    [c \in {"A", "B", "C", "D", "E", "F", "G", "H", "I", "J", "K", "L", "M", "N", "O", "P", "Q",
            "R", "S", "T", "U", "V", "W", "X", "Y", "Z"} |->
        CASE c = "A" -> "a" [] c = "B" -> "b" [] c = "C" -> "c" [] c = "D" -> "d"
          [] c = "E" -> "e" [] c = "F" -> "f" [] c = "G" -> "g" [] c = "H" -> "h"
          [] c = "I" -> "i" [] c = "J" -> "j" [] c = "K" -> "k" [] c = "L" -> "l"
          [] c = "M" -> "m" [] c = "N" -> "n" [] c = "O" -> "o" [] c = "P" -> "p"
          [] c = "Q" -> "q" [] c = "R" -> "r" [] c = "S" -> "s" [] c = "T" -> "t"
          [] c = "U" -> "u" [] c = "V" -> "v" [] c = "W" -> "w" [] c = "X" -> "x"
          [] c = "Y" -> "y" [] OTHER -> "z"]
\* case folding of one character (re.IGNORECASE)
Lower(c) == IF c \in DOMAIN UpperToLower THEN UpperToLower[c] ELSE c

\* the regex item [^/]+
NSP == "[^/]+"

\* re.compile of the constructs the patterns use: "\x" a literal x, "[^/]+", a literal char
RECURSIVE RegexItems(_)
RegexItems(src) ==
    IF src = "" THEN <<>>
    ELSE IF StartsWith(src, "\\") THEN <<SubSeq(src, 2, 2)>> \o RegexItems(SubSeq(src, 3, Len(src)))
    ELSE IF StartsWith(src, NSP) THEN <<NSP>> \o RegexItems(SubSeq(src, 6, Len(src)))
    ELSE <<SubSeq(src, 1, 1)>> \o RegexItems(SubSeq(src, 2, Len(src)))

\* the pattern list of path_contains_windows_bins, in source order
WinPatterns ==
    << "/mnt/c/Program Files/nodejs",
       "/mnt/c/Program Files \\(x86\\)/nodejs",
       "/mnt/c/Users/[^/]+/AppData/Roaming/npm",
       "/mnt/c/Users/[^/]+/AppData/Local/Microsoft/WindowsApps",
       "/mnt/c/Users/[^/]+/AppData/Local/Programs/Python" >>

\* each pattern compiled once, as re caches compiled patterns
Compiled == [src \in { WinPatterns[k] : k \in 1..Len(WinPatterns) } |-> RegexItems(src)]

\* the regex items match s from position i on (case-insensitively)
\* position of the first "/" in s at or after i (Len(s) + 1 if none)
NextSlash(s, i) ==
    IF \E k \in i..Len(s) : SubSeq(s, k, k) = "/"
    THEN CHOOSE k \in i..Len(s) : SubSeq(s, k, k) = "/" /\ \A m \in i..(k - 1) : SubSeq(s, m, m) /= "/"
    ELSE Len(s) + 1

RECURSIVE MatchAt(_, _, _)
MatchAt(items, s, i) ==
    IF items = <<>> THEN TRUE
    ELSE IF Head(items) = NSP
    THEN \E j \in i..(NextSlash(s, i) - 1) : MatchAt(Tail(items), s, j + 1)
    ELSE /\ i <= Len(s)
         /\ Lower(SubSeq(s, i, i)) = Lower(Head(items))
         /\ MatchAt(Tail(items), s, i + 1)

\* re.search(pattern, s, re.IGNORECASE) is not None
SearchMut(src, s) == MatchAt(Compiled[src], s, 1)
Search(src, s) == \E i \in 1..(Len(s) + 1) : MatchAt(Compiled[src], s, i)

\* path_contains_windows_bins() with PATH = pathEnv
PathContainsWindowsBins(pathEnv) == SelectSeq(WinPatterns, LAMBDA pat : Search(pat, pathEnv))

\* repr() of a str without quotes in it: backslashes doubled, single-quoted
RECURSIVE EscBackslash(_)
EscBackslash(s) ==
    IF s = "" THEN ""
    ELSE (IF SubSeq(s, 1, 1) = "\\" THEN "\\\\" ELSE SubSeq(s, 1, 1)) \o EscBackslash(SubSeq(s, 2, Len(s)))
PyStrRepr(s) == "'" \o EscBackslash(s) \o "'"

\* repr() of a list of str
RECURSIVE ReprItems(_)
ReprItems(l) == IF l = <<>> THEN ""
                ELSE IF Len(l) = 1 THEN PyStrRepr(Head(l))
                ELSE PyStrRepr(Head(l)) \o ", " \o ReprItems(Tail(l))
PyListRepr(l) == "[" \o ReprItems(l) \o "]"

CheckWindowsPathHygieneMut(strict, pathEnv) ==
    LET hits == PathContainsWindowsBins(pathEnv)
        ok == Len(hits) = 0
    IN  CheckResult("WSL PATH does not include Windows Node/Python locations",
                    ok,
                    IF ok THEN "clean" ELSE "matches: " \o PyListRepr(hits),
                    "Remove Windows runtime paths from WSL PATH (~/.bashrc, ~/.zshrc).",
                    TRUE)
CheckWindowsPathHygiene(strict, pathEnv) ==
    LET hits == PathContainsWindowsBins(pathEnv)
        ok == Len(hits) = 0
    IN  CheckResult("WSL PATH does not include Windows Node/Python locations",
                    ok,
                    IF ok THEN "clean" ELSE "matches: " \o PyListRepr(hits),
                    "Remove Windows runtime paths from WSL PATH (~/.bashrc, ~/.zshrc).",
                    strict)

InitHyg ==
    /\ inp \in [strict : BOOLEAN,
                 path : { JoinColon(es) : es \in SeqsUpTo(PathEntries, MaxEntries) }]
    /\ ProbeInitRest

\* check_windows_path_hygiene(args.strict) with PATH = inp.path
RunCheckWindowsPathHygiene ==
    /\ pc = "init"
    /\ res' = CheckWindowsPathHygiene(inp.strict, inp.path)
    /\ pc' = "done"
    /\ UNCHANGED <<results, out, code, results2, out2, code2, inp>>

NextHyg == RunCheckWindowsPathHygiene

SpecHyg == InitHyg /\ [][NextHyg]_vars

\* some prefix of t is an instance of the pattern (case-insensitive), item by item
RECURSIVE PrefixMatchCI(_, _)
PrefixMatchCI(items, t) ==
    IF items = <<>> THEN TRUE
    ELSE IF Head(items) = NSP
    THEN \E k \in 1..Len(t) :
            /\ \A m \in 1..k : SubSeq(t, m, m) /= "/"
            /\ PrefixMatchCI(Tail(items), SubSeq(t, k + 1, Len(t)))
    ELSE /\ t /= ""
         /\ Lower(SubSeq(t, 1, 1)) = Lower(Head(items))
         /\ PrefixMatchCI(Tail(items), SubSeq(t, 2, Len(t)))

\* some substring of s, starting at a "/", is an instance of the pattern
SubstringMatches(src, s) ==
    \E i \in 1..Len(s) : SubSeq(s, i, i) = "/" /\ PrefixMatchCI(Compiled[src], SubSeq(s, i, Len(s)))

PatternsHit(s) == { k \in 1..Len(WinPatterns) : SubstringMatches(WinPatterns[k], s) }

\* C4 (as stated): PATH matching no pattern gives ok and "clean"; a PATH with a substring
\* matching a pattern gives not ok with that pattern written in details; required = strict.
C4_HygieneAsStated ==
    pc = "done" =>
        /\ res.required = inp.strict
        /\ (PatternsHit(inp.path) = {} => res.ok /\ res.details = "clean")
        /\ \A k \in PatternsHit(inp.path) : ~res.ok /\ Contains(res.details, WinPatterns[k])

\* C4 (amended): as stated, except that details is "matches: " followed by the Python repr
\* of the list of matched patterns, so each matched pattern appears in its repr form (the
\* backslashes of the "(x86)" pattern doubled) and in source order.
C4_HygieneRepr ==
    pc = "done" =>
        /\ res.required = inp.strict
        /\ (PatternsHit(inp.path) = {} => res.ok /\ res.details = "clean")
        /\ (PatternsHit(inp.path) /= {} =>
               /\ ~res.ok
               /\ res.details = "matches: " \o PyListRepr(
                      [n \in 1..Cardinality(PatternsHit(inp.path)) |->
                          WinPatterns[CHOOSE k \in PatternsHit(inp.path) :
                              Cardinality({m \in PatternsHit(inp.path) : m <= k}) = n]])
               /\ \A k \in PatternsHit(inp.path) : Contains(res.details, PyStrRepr(WinPatterns[k])))

C4_Witness ==
    /\ pc = "done" /\ ~res.ok /\ inp.strict
    /\ 2 \in PatternsHit(inp.path)
    /\ ~StartsWith(inp.path, "/mnt")

\* ---------------------------------------------------------------- SpecOs: is_wsl / is_windows_native / is_macos / check_os

Systems == {"Linux", "Darwin", "Windows", "Java"}
\* os.environ.get("WSL_DISTRO_NAME"): unset, empty, or a distribution name
WslEnvValues == {None, "", "Ubuntu"}
\* open("/proc/version").read(): fails (absent, unreadable, undecodable) or gives a text
ProcVersions == {[readable |-> FALSE, text |-> ""]} \cup
                [readable : {TRUE},
                 text : {"Linux version 5.15.90.1-microsoft-standard-WSL2",
                         "Linux version 4.4.0-19041-Microsoft",
                         "Linux version 6.1.0-18-amd64",
                         "Linux version 5.15 MicroSoft",
                         ""}]

\* str.lower()
RECURSIVE LowerStr(_)
LowerStr(s) == IF s = "" THEN "" ELSE Lower(SubSeq(s, 1, 1)) \o LowerStr(SubSeq(s, 2, Len(s)))

\* truthiness of an optional str
Truthy(v) == v /= None /\ v /= ""

IsWslMut(wslEnv, procVersion) ==
    IF Truthy(wslEnv) THEN TRUE
    ELSE IF ~procVersion.readable THEN FALSE
    ELSE Contains(procVersion.text, "microsoft")
IsWsl(wslEnv, procVersion) ==
    IF Truthy(wslEnv) THEN TRUE
    ELSE IF ~procVersion.readable THEN FALSE
    ELSE Contains(LowerStr(procVersion.text), "microsoft")

IsWindowsNative(system) == LowerStr(system) = "windows"
IsMacos(system) == LowerStr(system) = "darwin"

CheckOs(system, wslEnv, procVersion) ==
    IF IsWindowsNative(system)
    THEN CheckResult("OS is Linux / WSL / macOS (not Windows-native)", FALSE,
                     "Detected: " \o system,
                     "Run this script inside WSL/Linux/macOS terminal.", TRUE)
    ELSE LET kind == IF IsWsl(wslEnv, procVersion) THEN "WSL"
                     ELSE IF IsMacos(system) THEN "macOS" ELSE "Linux"
         IN  CheckResult("OS is Linux / WSL / macOS (not Windows-native)", TRUE,
                         "Detected: " \o kind, "", TRUE)

InitOs ==
    /\ inp \in [system : Systems, wslEnv : WslEnvValues, procVersion : ProcVersions]
    /\ ProbeInitRest

\* check_os()
RunCheckOs ==
    /\ pc = "init"
    /\ res' = CheckOs(inp.system, inp.wslEnv, inp.procVersion)
    /\ pc' = "done"
    /\ UNCHANGED <<results, out, code, results2, out2, code2, inp>>

NextOs == RunCheckOs

SpecOs == InitOs /\ [][NextOs]_vars

KernelSaysMicrosoft(i) ==
    i.procVersion.readable /\ Contains(LowerStr(i.procVersion.text), "microsoft")

ExpectedKind(envSignal, i) ==
    IF envSignal \/ KernelSaysMicrosoft(i) THEN "WSL"
    ELSE IF LowerStr(i.system) = "darwin" THEN "macOS" ELSE "Linux"

\* C5 (as stated): always required; Windows-native is not ok whatever else holds;
\* otherwise ok, classified WSL when WSL_DISTRO_NAME is set or /proc/version says
\* "microsoft" in any case, else macOS on Darwin, else Linux.
C5_OsAsStated ==
    pc = "done" =>
        /\ res.required
        /\ (LowerStr(inp.system) = "windows" => ~res.ok)
        /\ (LowerStr(inp.system) /= "windows" =>
               res.ok /\ res.details = "Detected: " \o ExpectedKind(inp.wslEnv /= None, inp))

\* C5 (amended): as stated, with "set" meaning set to a non-empty value: an empty
\* WSL_DISTRO_NAME counts as unset.
C5_OsNonEmptyEnv ==
    pc = "done" =>
        /\ res.required
        /\ (LowerStr(inp.system) = "windows" => ~res.ok /\ res.details = "Detected: " \o inp.system)
        /\ (LowerStr(inp.system) /= "windows" =>
               res.ok /\ res.details = "Detected: " \o ExpectedKind(inp.wslEnv \notin {None, ""}, inp))

C5_Witness ==
    /\ pc = "done" /\ res.ok /\ res.details = "Detected: WSL"
    /\ inp.wslEnv = "" /\ inp.system = "Darwin"

\* ---------------------------------------------------------------- SpecMain: main()

\* Two runs of main() on the same host: results/out/code with --strict,
\* results2/out2/code2 without it.

NumChecks == 11
MainBins == {"uv", "gh", "claude", "codex", "gemini"}
NvmDir == "/home/u/.nvm/versions/node/v20/bin"
NodeDirs == {None, "/usr/bin", NvmDir, "/mnt/c/Program Files/nodejs"}
MainPaths == {NvmDir \o ":/usr/bin", "/mnt/c/Program Files/nodejs:/usr/bin"}
MainProjects == {"/mnt/c/Users/dev/proj", "/home/dev/proj"}
MainSystems == {"Linux", "Windows"}
MainPyVersions == {<<3, 9>>, <<3, 12>>}
MainCwd == "/home/dev"

\* the executable files on the host: node in nodeDir, the other tools in /usr/bin
HostFs(e) ==
    [f \in { PathJoin(d, n) : d \in {"/usr/bin", NvmDir, "/mnt/c/Program Files/nodejs"},
                              n \in MainBins \cup {"node"} } |->
        IF \E n \in e.bins : f = PathJoin("/usr/bin", n) THEN "exec"
        ELSE IF e.nodeDir /= None /\ f = PathJoin(e.nodeDir, "node") THEN "exec"
        ELSE "absent"]

CheckNodeNvmMut(strict, node) ==
    CheckResult("Node.js is installed via nvm", node /= None /\ Contains(node, ".nvm"),
                IF node = None THEN "node not found" ELSE node,
                "Install Node.js via nvm and run 'nvm use'.", TRUE)
CheckNodeNvm(strict, node) ==
    CheckResult("Node.js is installed via nvm", node /= None /\ Contains(node, ".nvm"),
                IF node = None THEN "node not found" ELSE node,
                "Install Node.js via nvm and run 'nvm use'.", strict)

MainWhich(n, e) == Which(n, e.path, HostFs(e))

\* the i-th element of the checks list of main()
MainCheck(i, e, strict) ==
    CASE i = 1 -> CheckOs(e.system, None, [readable |-> FALSE, text |-> ""])
      [] i = 2 -> CheckProjectPath(e.project, MainCwd)
      [] i = 3 -> CheckPythonVersion(e.py[1], e.py[2], 0, "", "/usr/bin/python3")
      [] i = 4 -> CheckBin("node", TRUE, "Node.js", MainWhich("node", e))
      [] i = 5 -> CheckBin("uv", TRUE, "uv", MainWhich("uv", e))
      [] i = 6 -> CheckBin("gh", TRUE, "GitHub CLI (gh)", MainWhich("gh", e))
      [] i = 7 -> CheckBin("claude", FALSE, "Claude Code (claude)", MainWhich("claude", e))
      [] i = 8 -> CheckBin("codex", FALSE, "OpenAI Codex (codex)", MainWhich("codex", e))
      [] i = 9 -> CheckBin("gemini", FALSE, "Gemini CLI (gemini)", MainWhich("gemini", e))
      [] i = 10 -> CheckNodeNvm(strict, MainWhich("node", e))
      [] OTHER -> CheckWindowsPathHygiene(strict, e.path)

InitMain ==
    /\ inp \in [system : MainSystems, project : MainProjects, path : MainPaths,
                 py : MainPyVersions, bins : SUBSET MainBins, nodeDir : NodeDirs]
    /\ results = <<>> /\ out = <<>> /\ code = -1
    /\ results2 = <<>> /\ out2 = <<>> /\ code2 = -1
    /\ res = None /\ pc = "running"

\* evaluation of the next element of the checks list, in both runs
MainStep ==
    /\ pc = "running"
    /\ Len(results) < NumChecks
    /\ results' = Append(results, MainCheck(Len(results) + 1, inp, TRUE))
    /\ results2' = Append(results2, MainCheck(Len(results2) + 1, inp, FALSE))
    /\ UNCHANGED <<out, code, out2, code2, inp, res, pc>>

\* return print_results(checks)
MainPrint ==
    /\ pc = "running"
    /\ Len(results) = NumChecks
    /\ out' = PrintResults(results)[1] /\ code' = PrintResults(results)[2]
    /\ out2' = PrintResults(results2)[1] /\ code2' = PrintResults(results2)[2]
    /\ pc' = "done"
    /\ UNCHANGED <<results, results2, inp, res>>

NextMain == MainStep \/ MainPrint

SpecMain == InitMain /\ [][NextMain]_vars

MainRequired == <<TRUE, TRUE, TRUE, TRUE, TRUE, TRUE, FALSE, FALSE, FALSE>>

\* C7: --strict changes only the required field of the nvm and path hygiene checks (both
\* required exactly under --strict); OS, project path, Python, node, uv, gh are required,
\* claude, codex, gemini optional; so the strict run never exits lower.
C7_StrictOnlyPromotes ==
    pc = "done" =>
        /\ Len(results) = NumChecks /\ Len(results2) = NumChecks
        /\ \A i \in 1..9 : results[i] = results2[i] /\ results[i].required = MainRequired[i]
        /\ \A i \in 10..11 :
               /\ results[i].required /\ ~results2[i].required
               /\ [results[i] EXCEPT !.required = FALSE] = results2[i]
        /\ code >= code2

C7_Witness == pc = "done" /\ code = 1 /\ code2 = 0

ScenarioHost(e) ==
    e.system = "Linux" /\ e.project = "/mnt/c/Users/dev/proj"
    /\ e.path = "/mnt/c/Program Files/nodejs:/usr/bin"

\* C8: Linux host, project /mnt/c/Users/dev/proj, PATH "/mnt/c/Program Files/nodejs:/usr/bin",
\* no --strict: the OS check passes, the project check fails and is required, the path
\* hygiene check fails and is optional, and the exit code is 1.
C8_Scenario ==
    (pc = "done" /\ ScenarioHost(inp)) =>
        /\ results2[1].ok
        /\ ~results2[2].ok /\ results2[2].required
        /\ ~results2[11].ok /\ ~results2[11].required
        /\ code2 = 1

C8_Witness == pc = "done" /\ ScenarioHost(inp) /\ inp.bins = MainBins /\ inp.nodeDir = NvmDir

MainNames ==
    << "OS is Linux / WSL / macOS (not Windows-native)",
       "Project directory is on Linux filesystem (not /mnt/c)",
       "Python version >= 3.10",
       "Node.js is installed", "uv is installed", "GitHub CLI (gh) is installed",
       "Claude Code (claude) is installed", "OpenAI Codex (codex) is installed",
       "Gemini CLI (gemini) is installed",
       "Node.js is installed via nvm",
       "WSL PATH does not include Windows Node/Python locations" >>

BlockLen(r) == 2 + (IF r.details /= "" THEN 1 ELSE 0) + (IF ~r.ok THEN 1 ELSE 0)
RECURSIVE BlockStart(_, _)
\* line index where the entry of rs[i] starts
BlockStart(rs, i) == IF i = 1 THEN 1 ELSE BlockStart(rs, i - 1) + BlockLen(rs[i - 1])

\* the report lists each result in order: status glyph, tag, name; details line iff
\* details non-empty; Fix line iff not ok; a blank line; then one summary line
ReportWellFormed(rs, ls) ==
    /\ Len(ls) = BlockStart(rs, Len(rs) + 1)
    /\ \A i \in 1..Len(rs) :
         LET b == BlockStart(rs, i)
             r == rs[i]
             k == IF r.details /= "" THEN 1 ELSE 0
         IN  /\ ls[b] = (IF r.ok THEN GlyphOk ELSE GlyphFail) \o " ["
                          \o (IF r.required THEN "REQUIRED" ELSE "OPTIONAL") \o "] " \o r.name
             /\ (r.details /= "" => ls[b + 1] = "    - " \o r.details)
             /\ (~r.ok => ls[b + 1 + k] = "    - Fix: " \o r.fix)
             /\ ls[b + BlockLen(r) - 1] = ""

\* print_results on any bounded list, then the runs of main()
SpecReport == (InitPR \/ InitMain) /\ [][NextPR \/ NextMain]_vars

\* C10: main builds one result per configured check in the fixed order of its list, and
\* print_results writes one entry per result in that order: glyph, REQUIRED/OPTIONAL tag
\* matching required, the name, a details line iff details is non-empty, a Fix line iff
\* not ok, and a blank line.
C10_ReportOrder ==
    /\ pc = "printed" => ReportWellFormed(results, out)
    /\ pc = "done" =>
        /\ [i \in 1..Len(results) |-> results[i].name] = MainNames
        /\ [i \in 1..Len(results2) |-> results2[i].name] = MainNames
        /\ ReportWellFormed(results, out)
        /\ ReportWellFormed(results2, out2)

C10_Witness ==
    /\ pc = "printed" /\ Len(results) = MaxResults
    /\ results[1].details = "" /\ ~results[1].ok /\ results[2].details /= "" /\ results[3].ok

====
